---------------------------- MODULE Spec2Model ----------------------------
(***************************************************************************)
(* Model of src/main.py (historee): the domain extraction, normalization,  *)
(* TLD validation, rule loading and batch aggregation pipeline.            *)
(*                                                                         *)
(* A Python str is a sequence of characters; a character is a one-token    *)
(* string.  The token "Lo" stands for one letter that has no case (for     *)
(* instance U+4E2D) and "Lt" for one titlecase letter (for instance        *)
(* U+01C5).  Python's None is the value None below.                        *)
(***************************************************************************)
EXTENDS Integers, Sequences, FiniteSets, Bags, TLC

VARIABLES
    tld_call,        \* one call of has_valid_tld: argument, position, result
    norm_call,       \* calls of normalize_domain: arguments, position, results
    load,            \* one call of load_domain_patterns: argument, the file
                     \* system, locals, standard output, outcome
    args,            \* main_cli: the parsed command line, position, exit code
    all_urls,        \* extract_domains_from_urls: rows fetched from the cursor
    patterns,        \* extract_domains_from_urls: the compiled rule list
    batch_size,      \* extract_domains_from_urls: URLs per batch
    max_workers,     \* extract_domains_from_urls: resolved worker count
    pc,              \* position of the orchestrating thread
    batch_num,       \* loop variable of the sequential / submit loop
    tasks,           \* per batch: state of its process_url_batch call
    unique_domains,  \* accumulator: set of normalized domains
    domain_counts,   \* accumulator: collections.Counter, as a bag
    domains_removed, \* accumulator: number of rejected URLs
    finished_futures, \* the futures that are done and that as_completed has
                     \* not yielded, as batch indices in finishing order
    as_completed     \* the generator as_completed: whether it has started,
                     \* and the futures it found done when it started and
                     \* has not yielded

pipeVars == <<all_urls, patterns, batch_size, max_workers, pc, batch_num,
              tasks, unique_domains, domain_counts, domains_removed>>

futVars == <<finished_futures, as_completed>>

vars == <<tld_call, norm_call, load, args, pipeVars, futVars>>

-----------------------------------------------------------------------------
(* Bounds of the model *)

MaxTldLen == 4       \* longest argument given to has_valid_tld
MaxDomLen == 7       \* longest domain given to normalize_domain
MaxRules  == 2       \* longest rule list given to normalize_domain
MaxLines  == 2       \* most lines of a pattern file
MaxLineLen == 2      \* longest line of a pattern file
MaxUrls   == 3       \* most rows fetched from the urls table
MaxBatchSize == 3    \* largest batch size
MaxWorkers == 2      \* largest worker count
MaxFailures == 1     \* most batches that raise an unexpected error in a run

-----------------------------------------------------------------------------
(* Python values and str methods *)

None == <<"None">>

Lower    == {"a", "b", "c", "d", "e", "f", "g", "h", "i", "j", "k", "l", "m",
             "n", "o", "p", "q", "r", "s", "t", "u", "v", "w", "x", "y", "z"}
Upper    == {"A"}
Caseless == {"Lo"}
Title    == {"Lt"}

\* bool(x) is False for None and for the empty str
IsFalsy(x) == x = None \/ x = <<>>

\* all str values of length at most n over the characters cs
StrsUpTo(cs, n) == UNION {[1..k -> cs] : k \in 0..n}

\* c.isalpha() for one character
char_isalpha(c) == c \in Lower \cup Upper \cup Caseless \cup Title

\* s.isalpha(): every character alphabetic and at least one character
str_isalpha(s) == Len(s) >= 1 /\ \A i \in 1..Len(s) : char_isalpha(s[i])

\* s.islower(): no uppercase or titlecase character, at least one cased one
str_islower(s) ==
    /\ \A i \in 1..Len(s) : s[i] \notin Upper \cup Title
    /\ \E i \in 1..Len(s) : s[i] \in Lower

\* s.count('.')
str_count_dots(s) == Cardinality({i \in 1..Len(s) : s[i] = "."})

\* s.rfind('.'), a 0-based index, -1 when there is no '.'
str_rfind_dot(s) ==
    IF \A i \in 1..Len(s) : s[i] # "." THEN -1
    ELSE (CHOOSE i \in 1..Len(s) :
              s[i] = "." /\ \A j \in (i+1)..Len(s) : s[j] # ".") - 1

\* s.split('.')
RECURSIVE str_split_dots(_)
str_split_dots(s) ==
    IF \A i \in 1..Len(s) : s[i] # "." THEN <<s>>
    ELSE LET i == CHOOSE k \in 1..Len(s) :
                      s[k] = "." /\ \A j \in 1..(k-1) : s[j] # "."
         IN  <<SubSeq(s, 1, i-1)>> \o str_split_dots(SubSeq(s, i+1, Len(s)))

\* '.'.join(parts)
RECURSIVE str_join_dots(_)
str_join_dots(parts) ==
    IF parts = <<>> THEN <<>>
    ELSE IF Len(parts) = 1 THEN parts[1]
    ELSE parts[1] \o <<".">> \o str_join_dots(Tail(parts))

\* parts[-3:]
LastThree(parts) ==
    IF Len(parts) <= 3 THEN parts ELSE SubSeq(parts, Len(parts) - 2, Len(parts))

\* s.startswith(p) and s.endswith(p)
StartsWith(s, p) == Len(s) >= Len(p) /\ SubSeq(s, 1, Len(p)) = p
EndsWith(s, p)   == Len(s) >= Len(p) /\ SubSeq(s, Len(s) - Len(p) + 1, Len(s)) = p

-----------------------------------------------------------------------------
(* has_valid_tld *)

\* has_valid_tld without the islower() test
has_valid_tld_no_islower(domain) ==
    IF IsFalsy(domain) THEN FALSE
    ELSE IF Len(domain) < 3 \/ str_count_dots(domain) = 0 THEN FALSE
    ELSE LET last_dot == str_rfind_dot(domain) IN
         IF last_dot = -1 \/ last_dot = Len(domain) - 1 THEN FALSE
         ELSE LET tld == SubSeq(domain, last_dot + 2, Len(domain)) IN
              Len(tld) >= 2 /\ str_isalpha(tld)

has_valid_tld(domain) ==
    IF IsFalsy(domain) THEN FALSE
    ELSE IF Len(domain) < 3 \/ str_count_dots(domain) = 0 THEN FALSE
    ELSE LET last_dot == str_rfind_dot(domain) IN
         IF last_dot = -1 \/ last_dot = Len(domain) - 1 THEN FALSE
         ELSE LET tld == SubSeq(domain, last_dot + 2, Len(domain)) IN
              Len(tld) >= 2 /\ str_islower(tld) /\ str_isalpha(tld)

-----------------------------------------------------------------------------
(* Compiled rules.  A rule is a compiled regular expression of one of the  *)
(* shapes below; lit is a literal (escaped) piece of text.                 *)
(*   suffix          ^.+\.(lit)$                                           *)
(*   suffix_nogroup  ^.+\.lit$                                             *)
(*   prefix          (lit)                                                 *)
(*   emptycap        ^()lit$                                               *)
(*   optgroup        ^(?:(lit)|.+)$                                        *)
(*   striplabel      ^[^.]+\.(.+)$                                         *)
(*   suffix_label    ^.+\.(pre[^.]+post)$      with lit = <<pre, post>>     *)
(*   literal         lit                                                   *)

Rule(shape, lit) == [shape |-> shape, lit |-> lit]

NoMatch == [matched |-> FALSE, end |-> 0, groups |-> <<>>]

\* pattern.match(s) of the re module: the match object (None as NoMatch),
\* with match.end() and match.groups()
re_match(rule, s) ==
    CASE rule.shape = "suffix" ->
             IF Len(s) >= Len(rule.lit) + 2 /\ EndsWith(s, <<".">> \o rule.lit)
             THEN [matched |-> TRUE, end |-> Len(s), groups |-> <<rule.lit>>]
             ELSE NoMatch
      [] rule.shape = "suffix_nogroup" ->
             IF Len(s) >= Len(rule.lit) + 2 /\ EndsWith(s, <<".">> \o rule.lit)
             THEN [matched |-> TRUE, end |-> Len(s), groups |-> <<>>]
             ELSE NoMatch
      [] rule.shape = "prefix" ->
             IF StartsWith(s, rule.lit)
             THEN [matched |-> TRUE, end |-> Len(rule.lit),
                   groups |-> <<rule.lit>>]
             ELSE NoMatch
      [] rule.shape = "emptycap" ->
             IF s = rule.lit
             THEN [matched |-> TRUE, end |-> Len(s), groups |-> << <<>> >>]
             ELSE NoMatch
      [] rule.shape = "optgroup" ->
             IF s = rule.lit
             THEN [matched |-> TRUE, end |-> Len(s), groups |-> <<rule.lit>>]
             ELSE IF Len(s) >= 1
             THEN [matched |-> TRUE, end |-> Len(s), groups |-> <<None>>]
             ELSE NoMatch
      [] rule.shape = "striplabel" ->
             IF \E k \in 2..(Len(s) - 1) :
                    s[k] = "." /\ \A j \in 1..(k-1) : s[j] # "."
             THEN LET k == CHOOSE k \in 2..(Len(s) - 1) :
                               s[k] = "." /\ \A j \in 1..(k-1) : s[j] # "."
                  IN  [matched |-> TRUE, end |-> Len(s),
                       groups |-> <<SubSeq(s, k+1, Len(s))>>]
             ELSE NoMatch
      [] rule.shape = "suffix_label" ->
             LET pre  == rule.lit[1]
                 post == rule.lit[2]
                 \* the text of n characters before post is one run of [^.]
                 Fits(n) ==
                     LET glen == Len(pre) + n + Len(post) IN
                     /\ Len(s) >= glen + 2
                     /\ EndsWith(s, post)
                     /\ \A j \in (Len(s) - Len(post) - n + 1)..(Len(s) - Len(post)) :
                            s[j] # "."
                     /\ SubSeq(s, Len(s) - glen, Len(s) - Len(post) - n) =
                            <<".">> \o pre
             IN  IF \E n \in 1..Len(s) : Fits(n)
                 THEN LET n == CHOOSE n \in 1..Len(s) :
                                   Fits(n) /\ \A m \in 1..(n-1) : ~Fits(m)
                      IN  [matched |-> TRUE, end |-> Len(s),
                           groups |-> <<SubSeq(s, Len(s) - Len(pre) - n
                                                    - Len(post) + 1, Len(s))>>]
                 ELSE NoMatch
      [] rule.shape = "literal" ->
             IF StartsWith(s, rule.lit)
             THEN [matched |-> TRUE, end |-> Len(rule.lit), groups |-> <<>>]
             ELSE NoMatch

-----------------------------------------------------------------------------
(* apply_pattern_normalization and normalize_domain *)

\* apply_pattern_normalization that also wants a non-empty first capture
RECURSIVE apply_pattern_normalization_nonempty(_, _)
apply_pattern_normalization_nonempty(domain, pats) ==
    IF pats = <<>> THEN domain
    ELSE LET match == re_match(Head(pats), domain) IN
         IF match.matched /\ match.groups # <<>>
               /\ ~IsFalsy(match.groups[1])
         THEN match.groups[1]
         ELSE apply_pattern_normalization_nonempty(domain, Tail(pats))

RECURSIVE apply_pattern_normalization(_, _)
apply_pattern_normalization(domain, pats) ==
    IF pats = <<>> THEN domain
    ELSE LET match == re_match(Head(pats), domain) IN
         IF match.matched /\ match.groups # <<>>
         THEN match.groups[1]
         ELSE apply_pattern_normalization(domain, Tail(pats))

\* normalize_domain that keeps parts[-2:]
normalize_domain_last_two(domain, pats) ==
    IF IsFalsy(domain) THEN domain
    ELSE LET dot_count == str_count_dots(domain)
             parts == str_split_dots(domain)
             normalized_domain ==
                 IF dot_count <= 2 THEN domain
                 ELSE str_join_dots(SubSeq(parts, Len(parts) - 1, Len(parts)))
         IN  IF pats # <<>>
             THEN apply_pattern_normalization(normalized_domain, pats)
             ELSE normalized_domain

\* normalize_domain that keeps parts[1:]
normalize_domain_drop_first(domain, pats) ==
    IF IsFalsy(domain) THEN domain
    ELSE LET dot_count == str_count_dots(domain)
             normalized_domain ==
                 IF dot_count <= 2 THEN domain
                 ELSE str_join_dots(Tail(str_split_dots(domain)))
         IN  IF pats # <<>>
             THEN apply_pattern_normalization(normalized_domain, pats)
             ELSE normalized_domain

normalize_domain(domain, pats) ==
    IF IsFalsy(domain) THEN domain
    ELSE LET dot_count == str_count_dots(domain)
             normalized_domain ==
                 IF dot_count <= 2 THEN domain
                 ELSE str_join_dots(LastThree(str_split_dots(domain)))
         IN  IF pats # <<>>
             THEN apply_pattern_normalization(normalized_domain, pats)
             ELSE normalized_domain

-----------------------------------------------------------------------------
(* Specification SpecTld: has_valid_tld applied to every bounded str *)

TldChars == {"a", "A", "1", ".", "Lo", "Lt"}

NormIdle == [domain |-> <<>>, rules |-> <<>>, result |-> <<>>,
             again |-> <<>>, pc |-> "idle"]
TldIdle  == [domain |-> <<>>, result |-> FALSE, pc |-> "idle"]
LoadIdle == [pattern_file_path |-> None, exists |-> FALSE, readable |-> FALSE,
             lines |-> <<>>, patterns |-> <<>>, compiled_patterns |-> <<>>,
             errors |-> <<>>, stdout |-> <<>>, raised |-> "", returned |-> None,
             pc |-> "idle"]
NotStarted == [started |-> FALSE, finished |-> {}]
ArgsIdle == [no_patterns |-> FALSE, pattern_file_path |-> None,
             pc |-> "idle", exit_code |-> 0]
PipeIdle ==
    /\ all_urls = <<>>
    /\ patterns = <<>>
    /\ batch_size = 1
    /\ max_workers = 1
    /\ pc = "idle"
    /\ batch_num = 0
    /\ tasks = <<>>
    /\ unique_domains = {}
    /\ domain_counts = EmptyBag
    /\ domains_removed = 0
    /\ finished_futures = <<>>
    /\ as_completed = NotStarted

InitTld ==
    /\ \E d \in StrsUpTo(TldChars, MaxTldLen) :
           tld_call = [domain |-> d, result |-> FALSE, pc |-> "call"]
    /\ norm_call = NormIdle
    /\ load = LoadIdle
    /\ args = ArgsIdle
    /\ PipeIdle

HasValidTldCall ==
    /\ tld_call.pc = "call"
    /\ tld_call' = [tld_call EXCEPT !.result = has_valid_tld(tld_call.domain),
                                    !.pc = "return"]
    /\ UNCHANGED <<norm_call, load, args, pipeVars, futVars>>

NextTld == HasValidTldCall

SpecTld == InitTld /\ [][NextTld]_vars

\* the characters after the last '.' of d are exactly d[k+1..Len(d)]
IsLastDot(d, k) ==
    /\ k \in 1..Len(d)
    /\ d[k] = "."
    /\ \A j \in (k+1)..Len(d) : d[j] # "."

\* C6 as stated: true exactly when d has at least 3 characters, contains a
\* '.', and the part after the last '.' has at least 2 characters, all of
\* them alphabetic and none of them uppercase.
C6_AsStated ==
    tld_call.pc = "return" =>
        (tld_call.result <=>
            LET d == tld_call.domain IN
            /\ Len(d) >= 3
            /\ \E k \in 1..Len(d) :
                   /\ IsLastDot(d, k)
                   /\ Len(d) - k >= 2
                   /\ \A j \in (k+1)..Len(d) :
                          char_isalpha(d[j]) /\ d[j] \notin Upper)

\* C6 amended: has_valid_tld(d) is true exactly when d has at least 3
\* characters, contains a '.', and the part after the last '.' has at least
\* 2 characters, all alphabetic, none uppercase or titlecase, and at least
\* one of them lowercase (a suffix of caseless letters only is rejected).
C6_ValidTldExactly ==
    tld_call.pc = "return" =>
        (tld_call.result <=>
            LET d == tld_call.domain IN
            /\ Len(d) >= 3
            /\ \E k \in 1..Len(d) :
                   /\ IsLastDot(d, k)
                   /\ Len(d) - k >= 2
                   /\ \A j \in (k+1)..Len(d) :
                          char_isalpha(d[j]) /\ d[j] \notin Upper \cup Title
                   /\ \E j \in (k+1)..Len(d) : d[j] \in Lower)

\* has_valid_tld returned true for a domain whose suffix mixes a lowercase
\* letter with a caseless one
C6_Witness ==
    /\ tld_call.pc = "return"
    /\ tld_call.result
    /\ tld_call.domain = <<"a", ".", "a", "Lo">>

-----------------------------------------------------------------------------
(* Specification SpecNorm: normalize_domain applied to every bounded       *)
(* domain and rule list, then applied again to its own result              *)

NormChars == {"a", "b", "."}

RulePool ==
    { Rule("suffix",         <<"a", ".", "b">>),
      Rule("suffix_nogroup", <<"a", ".", "b">>),
      Rule("prefix",         <<"a">>),
      Rule("emptycap",       <<"b", ".", "a">>),
      Rule("optgroup",       <<"b", ".", "b">>),
      Rule("striplabel",     <<>>) }

\* rule lists without repeated rules, of length at most n
RuleLists(n) ==
    {rs \in UNION {[1..k -> RulePool] : k \in 0..n} :
        \A i, j \in 1..Len(rs) : i # j => rs[i] # rs[j]}

InitNorm ==
    /\ \E d \in StrsUpTo(NormChars, MaxDomLen), rs \in RuleLists(MaxRules) :
           norm_call = [domain |-> d, rules |-> rs, result |-> <<>>,
                        again |-> <<>>, pc |-> "call"]
    /\ tld_call = TldIdle
    /\ load = LoadIdle
    /\ args = ArgsIdle
    /\ PipeIdle

NormalizeCall ==
    /\ norm_call.pc = "call"
    /\ norm_call' = [norm_call EXCEPT
           !.result = normalize_domain(norm_call.domain, norm_call.rules),
           !.pc = "returned"]
    /\ UNCHANGED <<tld_call, load, args, pipeVars, futVars>>

NormalizeAgain ==
    /\ norm_call.pc = "returned"
    /\ norm_call' = [norm_call EXCEPT
           !.again = normalize_domain(norm_call.result, norm_call.rules),
           !.pc = "returned_again"]
    /\ UNCHANGED <<tld_call, load, args, pipeVars, futVars>>

NextNorm == NormalizeCall \/ NormalizeAgain

SpecNorm == InitNorm /\ [][NextNorm]_vars

NormReturned == norm_call.pc \in {"returned", "returned_again"}

\* t is d reduced to its last three dot-separated labels: the suffix of d
\* that follows the third '.' counted from the end
IsLastThreeLabels(t, d) ==
    /\ EndsWith(d, <<".">> \o t)
    /\ str_count_dots(t) = 2

\* the structural step alone: d itself when it has at most two dots
Truncated(d) ==
    IF str_count_dots(d) <= 2 THEN d
    ELSE CHOOSE t \in {SubSeq(d, k, Len(d)) : k \in 1..(Len(d) + 1)} :
             IsLastThreeLabels(t, d)

\* rule i of rs, applied by the code to t: it matches at the start of t and
\* has a capture group
RuleApplies(rs, i, t) ==
    re_match(rs[i], t).matched /\ re_match(rs[i], t).groups # <<>>

\* rule i of rs as the claim has it: it matches t from start to end and its
\* first capture is non-empty
RuleQualifies(rs, i, t) ==
    /\ re_match(rs[i], t).matched
    /\ re_match(rs[i], t).end = Len(t)
    /\ re_match(rs[i], t).groups # <<>>
    /\ ~IsFalsy(re_match(rs[i], t).groups[1])

\* C7 as stated: the result is the first capture of the first rule that
\* matches the whole truncated domain with a non-empty first capture; rules
\* matching only a prefix, without a group or capturing nothing are passed
\* over; with no such rule the truncated domain is returned.
C7_AsStated ==
    (NormReturned /\ norm_call.domain # <<>>) =>
        LET rs == norm_call.rules
            t  == Truncated(norm_call.domain)
            Q  == {i \in 1..Len(rs) : RuleQualifies(rs, i, t)}
        IN  IF Q = {} THEN norm_call.result = t
            ELSE LET i == CHOOSE i \in Q : \A j \in Q : i <= j
                 IN  norm_call.result = re_match(rs[i], t).groups[1]

\* C7 amended: the rules are tried in list order and the result is the
\* value of the first capture group of the first rule whose pattern matches
\* at the start of the truncated domain (a match of a prefix is enough) and
\* has a capture group, also when that capture is empty or took no part in
\* the match (the result is then '' or None); a rule that does not match or
\* has no capture group is passed over; if no rule applies the truncated
\* domain is returned unchanged.
C7_FirstApplicableRule ==
    (NormReturned /\ norm_call.domain # <<>>) =>
        LET rs == norm_call.rules
            t  == Truncated(norm_call.domain)
            A  == {i \in 1..Len(rs) : RuleApplies(rs, i, t)}
        IN  IF A = {} THEN norm_call.result = t
            ELSE LET i == CHOOSE i \in A : \A j \in A : i <= j
                 IN  norm_call.result = re_match(rs[i], t).groups[1]

\* the first rule has no capture group and is passed over although it
\* matches; the second matches only a prefix and supplies the result
C7_Witness ==
    /\ norm_call.pc = "returned"
    /\ norm_call.domain = <<"b", ".", "a", ".", "a", ".", "b">>
    /\ norm_call.rules = <<Rule("suffix_nogroup", <<"a", ".", "b">>),
                           Rule("prefix", <<"a">>)>>
    /\ norm_call.result = <<"a">>

\* C8 as stated: normalize_domain(normalize_domain(d, R), R) equals
\* normalize_domain(d, R) for every domain d and every rule list R.
C8_AsStated ==
    norm_call.pc = "returned_again" => norm_call.again = norm_call.result

\* C8 amended: normalize_domain(normalize_domain(d, R), R) equals
\* normalize_domain(d, R) whenever R is empty, or normalize_domain(d, R) is
\* empty or None, or no rule of R applies to normalize_domain(d, R).
C8_IdempotentWhenNoRuleReapplies ==
    (/\ norm_call.pc = "returned_again"
     /\ \/ norm_call.rules = <<>>
        \/ IsFalsy(norm_call.result)
        \/ \A i \in 1..Len(norm_call.rules) :
               ~RuleApplies(norm_call.rules, i, norm_call.result))
    => norm_call.again = norm_call.result

\* a domain of five labels was truncated and rewritten by a rule, and the
\* second call left the result alone
C8_Witness ==
    /\ norm_call.pc = "returned_again"
    /\ str_count_dots(norm_call.domain) > 2
    /\ norm_call.rules # <<>>
    /\ norm_call.result # Truncated(norm_call.domain)
    /\ ~IsFalsy(norm_call.result)
    /\ norm_call.again = norm_call.result

\* C9: with an empty rule list a domain with more than two dots is reduced
\* to exactly its last three dot-separated labels, and a domain with two or
\* fewer dots is returned unchanged.
C9_StructuralTruncation ==
    (NormReturned /\ norm_call.rules = <<>>) =>
        IF str_count_dots(norm_call.domain) > 2
        THEN IsLastThreeLabels(norm_call.result, norm_call.domain)
        ELSE norm_call.result = norm_call.domain

\* a domain of four labels was reduced to its last three
C9_Witness ==
    /\ norm_call.pc = "returned"
    /\ norm_call.rules = <<>>
    /\ norm_call.domain = <<"a", ".", "b", ".", "a", ".", "b">>
    /\ norm_call.result = <<"b", ".", "a", ".", "b">>

-----------------------------------------------------------------------------
(* load_domain_patterns, explicit path branch.  A line of the file is a   *)
(* str without its line terminator.  The token "{huge}" stands for the     *)
(* text {99999999999999999999}, a repetition count that re.compile refuses *)
(* with OverflowError; over the characters used here re.compile raises     *)
(* re.error exactly on a pattern with an unclosed '(' and no such count.   *)
(* A pattern text that compiles is a literal text or has the shape of the  *)
(* built-in patterns.                                                      *)

LineChars == {" ", "#", "(", "a", "{huge}"}

\* s.strip()
RECURSIVE str_strip(_)
str_strip(s) ==
    IF s = <<>> THEN s
    ELSE IF Head(s) = " " THEN str_strip(Tail(s))
    ELSE IF s[Len(s)] = " " THEN str_strip(SubSeq(s, 1, Len(s) - 1))
    ELSE s

\* how re.compile(pattern) ends: "ok", or the exception it raises
re_compile_outcome(pattern) ==
    IF \E i \in 1..Len(pattern) : pattern[i] = "{huge}" THEN "OverflowError"
    ELSE IF Cardinality({i \in 1..Len(pattern) : pattern[i] = "("}) #
            Cardinality({i \in 1..Len(pattern) : pattern[i] = ")"})
    THEN "re.error"
    ELSE "ok"

\* the pattern text with every backslash escape replaced by its character
RECURSIVE str_unescape(_)
str_unescape(s) ==
    IF s = <<>> THEN s
    ELSE IF Head(s) = "\\" /\ Len(s) >= 2
    THEN <<s[2]>> \o str_unescape(SubSeq(s, 3, Len(s)))
    ELSE <<Head(s)>> \o str_unescape(Tail(s))

SuffixHead == <<"^", ".", "+", "\\", ".", "(">>
SuffixTail == <<")", "$">>
LabelRun   == <<"[", "^", ".", "]", "+">>

\* the compiled regular expression of a pattern text that compiles: the
\* rule of the shape the text has
re_compile(pattern) ==
    IF /\ Len(pattern) > Len(SuffixHead) + Len(SuffixTail)
       /\ StartsWith(pattern, SuffixHead)
       /\ EndsWith(pattern, SuffixTail)
    THEN LET body == SubSeq(pattern, Len(SuffixHead) + 1,
                            Len(pattern) - Len(SuffixTail))
             At(k) == /\ k + Len(LabelRun) - 1 <= Len(body)
                      /\ SubSeq(body, k, k + Len(LabelRun) - 1) = LabelRun
         IN  IF \E k \in 1..Len(body) : At(k)
             THEN LET k == CHOOSE k \in 1..Len(body) : At(k)
                  IN  Rule("suffix_label",
                           <<str_unescape(SubSeq(body, 1, k - 1)),
                             str_unescape(SubSeq(body, k + Len(LabelRun),
                                                 Len(body)))>>)
             ELSE Rule("suffix", str_unescape(body))
    ELSE Rule("literal", pattern)

\* lines 55-65: the built-in rule list, one pattern text per entry
default_patterns ==
    << <<"^", ".", "+", "\\", ".", "(", "c", "l", "o", "u", "d", "f", "r",
       "o", "n", "t", "\\", ".", "n", "e", "t", ")", "$">>,
       <<"^", ".", "+", "\\", ".", "(", "a", "m", "a", "z", "o", "n", "a",
       "w", "s", "\\", ".", "c", "o", "m", ")", "$">>,
       <<"^", ".", "+", "\\", ".", "(", "h", "e", "r", "o", "k", "u", "a",
       "p", "p", "\\", ".", "c", "o", "m", ")", "$">>,
       <<"^", ".", "+", "\\", ".", "(", "n", "e", "t", "l", "i", "f", "y",
       "\\", ".", "a", "p", "p", ")", "$">>,
       <<"^", ".", "+", "\\", ".", "(", "v", "e", "r", "c", "e", "l", "\\",
       ".", "a", "p", "p", ")", "$">>,
       <<"^", ".", "+", "\\", ".", "(", "g", "i", "t", "h", "u", "b", "\\",
       ".", "i", "o", ")", "$">>,
       <<"^", ".", "+", "\\", ".", "(", "f", "i", "r", "e", "b", "a", "s",
       "e", "a", "p", "p", "\\", ".", "c", "o", "m", ")", "$">>,
       <<"^", ".", "+", "\\", ".", "(", "a", "p", "p", "s", "p", "o", "t",
       "\\", ".", "c", "o", "m", ")", "$">>,
       <<"^", ".", "+", "\\", ".", "(", "a", "z", "u", "r", "e", "w", "e",
       "b", "s", "i", "t", "e", "s", "\\", ".", "n", "e", "t", ")", "$">>,
       <<"^", ".", "+", "\\", ".", "(", "c", "l", "o", "u", "d", "f", "l",
       "a", "r", "e", "\\", ".", "c", "o", "m", ")", "$">>,
       <<"^", ".", "+", "\\", ".", "(", "f", "a", "s", "t", "l", "y", "\\",
       ".", "c", "o", "m", ")", "$">>,
       <<"^", ".", "+", "\\", ".", "(", "c", "d", "n", "\\", ".", "c", "o",
       "m", ")", "$">>,
       <<"^", ".", "+", "\\", ".", "(", "c", "d", "n", "\\", ".", "n", "e",
       "t", ")", "$">>,
       <<"^", ".", "+", "\\", ".", "(", "c", "d", "n", "\\", ".", "o", "r",
       "g", ")", "$">>,
       <<"^", ".", "+", "\\", ".", "(", "s", "3", "\\", ".", "a", "m", "a",
       "z", "o", "n", "a", "w", "s", "\\", ".", "c", "o", "m", ")", "$">>,
       <<"^", ".", "+", "\\", ".", "(", "s", "3", "-", "w", "e", "b", "s",
       "i", "t", "e", "-", "[", "^", ".", "]", "+", "\\", ".", "a", "m", "a",
       "z", "o", "n", "a", "w", "s", "\\", ".", "c", "o", "m", ")", "$">>,
       <<"^", ".", "+", "\\", ".", "(", "e", "l", "a", "s", "t", "i", "c",
       "b", "e", "a", "n", "s", "t", "a", "l", "k", "\\", ".", "c", "o", "m",
       ")", "$">>,
       <<"^", ".", "+", "\\", ".", "(", "r", "a", "i", "l", "w", "a", "y",
       "\\", ".", "a", "p", "p", ")", "$">>,
       <<"^", ".", "+", "\\", ".", "(", "r", "e", "n", "d", "e", "r", "\\",
       ".", "c", "o", "m", ")", "$">>,
       <<"^", ".", "+", "\\", ".", "(", "f", "l", "y", "\\", ".", "i", "o",
       ")", "$">>,
       <<"^", ".", "+", "\\", ".", "(", "d", "i", "g", "i", "t", "a", "l",
       "o", "c", "e", "a", "n", "s", "p", "a", "c", "e", "s", "\\", ".", "c",
       "o", "m", ")", "$">>,
       <<"^", ".", "+", "\\", ".", "(", "b", "u", "n", "n", "y", "c", "d",
       "n", "\\", ".", "c", "o", "m", ")", "$">>,
       <<"^", ".", "+", "\\", ".", "(", "s", "t", "a", "c", "k", "p", "a",
       "t", "h", "c", "d", "n", "\\", ".", "c", "o", "m", ")", "$">>,
       <<"^", ".", "+", "\\", ".", "(", "k", "e", "y", "c", "d", "n", "\\",
       ".", "c", "o", "m", ")", "$">> >>

\* the loop over the lines of the file: (line, line_num) of every line that
\* is neither blank nor a comment after strip()
RECURSIVE read_patterns(_, _)
read_patterns(lines, line_num) ==
    IF lines = <<>> THEN <<>>
    ELSE LET line == str_strip(Head(lines)) IN
         (IF line # <<>> /\ ~StartsWith(line, <<"#">>)
          THEN << <<line, line_num>> >> ELSE <<>>)
         \o read_patterns(Tail(lines), line_num + 1)

\* the compile loop: its locals after the patterns pats, or the exception
\* that "except re.error" does not catch and that ends the loop
RECURSIVE compile_loop(_, _, _, _)
compile_loop(pats, file, compiled, errs) ==
    IF pats = <<>>
    THEN [compiled_patterns |-> compiled, errors |-> errs, raised |-> ""]
    ELSE LET pattern  == Head(pats)[1]
             line_num == Head(pats)[2]
             outcome  == re_compile_outcome(pattern)
         IN  IF outcome = "ok"
             THEN compile_loop(Tail(pats), file,
                               Append(compiled, re_compile(pattern)), errs)
             ELSE IF outcome = "re.error"
             THEN compile_loop(Tail(pats), file, compiled,
                      Append(errs, [file |-> file, line_num |-> line_num]))
             ELSE [compiled_patterns |-> compiled, errors |-> errs,
                   raised |-> outcome]

CustomPath == <<"c", "u", "s", "t", "o", "m", ".", "t", "x", "t">>

InitLoad ==
    /\ \E ex \in BOOLEAN, rd \in BOOLEAN,
          ls \in StrsUpTo(StrsUpTo(LineChars, MaxLineLen), MaxLines) :
           /\ (~ex => (~rd /\ ls = <<>>))
           /\ (~rd => ls = <<>>)
           /\ load = [LoadIdle EXCEPT !.pattern_file_path = CustomPath,
                                      !.exists = ex, !.readable = rd,
                                      !.lines = ls, !.pc = "check_exists"]
    /\ tld_call = TldIdle
    /\ norm_call = NormIdle
    /\ args = ArgsIdle
    /\ PipeIdle

\* lines 67-71: os.path.exists
LoadCheckExists ==
    /\ load.pc = "check_exists"
    /\ load.pattern_file_path # None
    /\ IF load.exists
       THEN load' = [load EXCEPT !.pc = "read"]
       ELSE load' = [load EXCEPT !.raised = "FileNotFoundError",
                                 !.pc = "raised"]
    /\ UNCHANGED <<tld_call, norm_call, args, pipeVars, futVars>>

\* lines 73-81: read the file
LoadReadStrict ==
    /\ load.pc = "read"
    /\ load.pattern_file_path # None
    /\ IF load.readable
       THEN load' = [load EXCEPT !.patterns = read_patterns(load.lines, 1),
                                 !.pc = "compile"]
       ELSE load' = [load EXCEPT !.raised = "Exception: Could not load",
                                 !.pc = "raised"]
    /\ UNCHANGED <<tld_call, norm_call, args, pipeVars, futVars>>

\* lines 84-90: compile every pattern, collecting the re.error messages
LoadCompileStrict ==
    /\ load.pc = "compile"
    /\ load.pattern_file_path # None
    /\ LET r == compile_loop(load.patterns, load.pattern_file_path, <<>>, <<>>)
       IN  load' = [load EXCEPT
               !.compiled_patterns = r.compiled_patterns,
               !.errors = r.errors,
               !.raised = r.raised,
               !.pc = IF r.raised = "" THEN "finish" ELSE "raised"]
    /\ UNCHANGED <<tld_call, norm_call, args, pipeVars, futVars>>

\* lines 92-100: print the errors and raise, or return
LoadFinishStrict ==
    /\ load.pc = "finish"
    /\ load.pattern_file_path # None
    /\ IF load.errors # <<>>
       THEN load' = [load EXCEPT !.stdout = load.stdout \o load.errors,
                                 !.raised = "Exception: Invalid regex patterns",
                                 !.pc = "raised"]
       ELSE load' = [load EXCEPT !.returned = load.compiled_patterns,
                                 !.pc = "returned"]
    /\ UNCHANGED <<tld_call, norm_call, args, pipeVars, futVars>>

NextLoad ==
    \/ LoadCheckExists
    \/ LoadReadStrict
    \/ LoadCompileStrict
    \/ LoadFinishStrict

SpecLoad == InitLoad /\ [][NextLoad]_vars

\* line i of the file holds a pattern: not blank, not a comment
IsPatternLine(i) ==
    LET line == str_strip(load.lines[i]) IN line # <<>> /\ line[1] # "#"

PatternLines == {i \in 1..Len(load.lines) : IsPatternLine(i)}
FailingLines ==
    {i \in PatternLines : re_compile_outcome(str_strip(load.lines[i])) # "ok"}

\* the k-th smallest member of the set S of numbers
NthOf(S, k) == CHOOSE i \in S : Cardinality({j \in S : j < i}) = k - 1

LoadEnded == load.pc \in {"raised", "returned"}

\* C10: with an explicit path, loading fails when the file does not exist;
\* when at least one pattern line fails to compile it fails without
\* returning any rule, after printing every failing line with its line
\* number; only when all lines compile does it return one rule per pattern
\* line, in file order.
C10_AsStated ==
    (LoadEnded /\ load.pattern_file_path # None) =>
        /\ ~load.exists => load.raised = "FileNotFoundError"
        /\ (load.readable /\ FailingLines # {}) =>
               /\ load.pc = "raised"
               /\ load.returned = None
               /\ Len(load.stdout) = Cardinality(FailingLines)
               /\ \A k \in 1..Len(load.stdout) :
                      load.stdout[k] = [file |-> load.pattern_file_path,
                                        line_num |-> NthOf(FailingLines, k)]
        /\ load.pc = "returned" =>
               /\ FailingLines = {}
               /\ Len(load.returned) = Cardinality(PatternLines)
               /\ \A k \in 1..Len(load.returned) :
                      load.returned[k] =
                          re_compile(str_strip(load.lines[NthOf(PatternLines, k)]))
        /\ (load.readable /\ FailingLines = {}) => load.pc = "returned"

-----------------------------------------------------------------------------
(* load_domain_patterns, default branch (no path given).  When the read    *)
(* of domain_patterns.txt raises, lines holds the lines read before the    *)
(* error.  A line printed on standard output is an error record, or a      *)
(* record that names the warning.                                          *)

DefaultFile == <<"d", "o", "m", "a", "i", "n", "_", "p", "a", "t", "t", "e",
                 "r", "n", "s", ".", "t", "x", "t">>
DefaultListName == <<"d", "e", "f", "a", "u", "l", "t", "_", "p", "a", "t",
                     "t", "e", "r", "n", "s", ".", "t", "x", "t">>

Warning(text) == [warning |-> text]

\* enumerate(seq, 1) as (element, index) pairs
enumerate(seq) == [i \in 1..Len(seq) |-> <<seq[i], i>>]

InitLoadDefault ==
    /\ \E ex \in BOOLEAN, rd \in BOOLEAN,
          ls \in StrsUpTo(StrsUpTo(LineChars, MaxLineLen), MaxLines) :
           /\ (~ex => (~rd /\ ls = <<>>))
           /\ load = [LoadIdle EXCEPT !.pattern_file_path = None,
                                      !.exists = ex, !.readable = rd,
                                      !.lines = ls, !.pc = "check_exists"]
    /\ tld_call = TldIdle
    /\ norm_call = NormIdle
    /\ args = ArgsIdle
    /\ PipeIdle

\* lines 102-105: os.path.exists(default_file)
LoadCheckDefault ==
    /\ load.pc = "check_exists"
    /\ load.pattern_file_path = None
    /\ load' = [load EXCEPT !.pc = IF load.exists THEN "read" ELSE "compile"]
    /\ UNCHANGED <<tld_call, norm_call, args, pipeVars, futVars>>

\* lines 106-116: read the default file; an error of the read is a warning
LoadReadLenient ==
    /\ load.pc = "read"
    /\ load.pattern_file_path = None
    /\ load' = [load EXCEPT
           !.patterns = read_patterns(load.lines, 1),
           !.stdout = IF load.readable THEN @
                      ELSE Append(@, Warning("Could not load patterns")),
           !.pc = "compile"]
    /\ UNCHANGED <<tld_call, norm_call, args, pipeVars, futVars>>

\* lines 119-125: compile every pattern, collecting the re.error messages
LoadCompileLenient ==
    /\ load.pc = "compile"
    /\ load.pattern_file_path = None
    /\ LET r == compile_loop(load.patterns, DefaultFile, <<>>, <<>>)
       IN  load' = [load EXCEPT
               !.compiled_patterns = r.compiled_patterns,
               !.errors = r.errors,
               !.raised = r.raised,
               !.pc = IF r.raised = "" THEN "select" ELSE "raised"]
    /\ UNCHANGED <<tld_call, norm_call, args, pipeVars, futVars>>

\* lines 128-143, 151-153: no rule from the file, compile the built-in list
LoadUseDefaults ==
    /\ load.pc = "select"
    /\ load.pattern_file_path = None
    /\ load.compiled_patterns = <<>>
    /\ LET warned == IF load.errors # <<>>
                     THEN Append(load.stdout,
                                 Warning("All patterns failed to compile"))
                     ELSE load.stdout
           r == compile_loop(enumerate(default_patterns), DefaultListName,
                             <<>>, load.errors)
       IN  IF r.raised # ""
           THEN load' = [load EXCEPT !.stdout = warned,
                                     !.compiled_patterns = r.compiled_patterns,
                                     !.errors = r.errors,
                                     !.raised = r.raised,
                                     !.pc = "raised"]
           ELSE IF r.compiled_patterns = <<>>
           THEN load' = [load EXCEPT
                    !.stdout = warned \o r.errors,
                    !.errors = r.errors,
                    !.raised = "Exception: All available patterns failed",
                    !.pc = "raised"]
           ELSE load' = [load EXCEPT
                    !.stdout = warned,
                    !.compiled_patterns = r.compiled_patterns,
                    !.errors = r.errors,
                    !.returned = r.compiled_patterns,
                    !.pc = "returned"]
    /\ UNCHANGED <<tld_call, norm_call, args, pipeVars, futVars>>

\* lines 144-153: some rule from the file, warn about the lines dropped
LoadKeepFileRules ==
    /\ load.pc = "select"
    /\ load.pattern_file_path = None
    /\ load.compiled_patterns # <<>>
    /\ load' = [load EXCEPT
           !.stdout = IF load.errors # <<>>
                      THEN Append(@, Warning("Some patterns failed to compile"))
                               \o load.errors
                      ELSE @,
           !.returned = load.compiled_patterns,
           !.pc = "returned"]
    /\ UNCHANGED <<tld_call, norm_call, args, pipeVars, futVars>>

NextLoadDefault ==
    \/ LoadCheckDefault
    \/ LoadReadLenient
    \/ LoadCompileLenient
    \/ LoadUseDefaults
    \/ LoadKeepFileRules

SpecLoadDefault == InitLoadDefault /\ [][NextLoadDefault]_vars

\* the pattern lines of the default file that compile
ValidLines == PatternLines \ FailingLines

\* the built-in rule list, compiled
DefaultRules == [i \in 1..Len(default_patterns) |->
                    re_compile(default_patterns[i])]

\* C11: with no path given, loading never fails because of a line of the
\* default file and never returns an empty rule list: it returns the rules
\* of the lines that compile, in file order, and the built-in rule list when
\* there is no such line (file absent, empty, or every line invalid).
C11_AsStated ==
    (LoadEnded /\ load.pattern_file_path = None) =>
        /\ load.pc = "returned"
        /\ load.returned # <<>>
        /\ IF ValidLines = {}
           THEN load.returned = DefaultRules
           ELSE /\ Len(load.returned) = Cardinality(ValidLines)
                /\ \A k \in 1..Len(load.returned) :
                       load.returned[k] =
                           re_compile(str_strip(load.lines[NthOf(ValidLines, k)]))

-----------------------------------------------------------------------------
(* process_url_batch and extract_domains_from_urls *)

\* batches at or below this count are processed sequentially
SeqBatchThreshold == 2

\* A URL is scheme://netloc/... ("hier"), a URL without '//' such as
\* about:blank ("opaque"), or a URL with an unclosed '[' in its host
\* ("badipv6"), for which urlparse raises ValueError.
Url(kind, netloc) == [kind |-> kind, netloc |-> netloc]

\* urlparse(url).netloc, or the exception it raises
url_netloc(url) ==
    CASE url.kind = "hier"    -> [raised |-> FALSE, netloc |-> url.netloc]
      [] url.kind = "opaque"  -> [raised |-> FALSE, netloc |-> <<>>]
      [] url.kind = "badipv6" -> [raised |-> TRUE,  netloc |-> <<>>]

PipeUrls ==
    { Url("hier", <<"b", ".", "c", ".", "a", ".", "b", "c">>),
      Url("hier", <<"a", ".", "b", "1">>),
      Url("hier", <<"b", "c", ".", "a", "b">>),
      Url("opaque", <<>>),
      Url("badipv6", <<"[">>) }

PipeRuleLists ==
    { <<>>,
      <<Rule("suffix", <<"a", ".", "b", "c">>), Rule("prefix", <<"b", "c">>)>> }

\* the locals of a process_url_batch call that has not started
NewTask == [state |-> "unsubmitted", pos |-> 0, batch_domains |-> {},
            batch_counts |-> EmptyBag, batch_removed |-> 0]

\* total_batches = (len(all_urls) + batch_size - 1) // batch_size
total_batches == (Len(all_urls) + batch_size - 1) \div batch_size

Min(a, b) == IF a <= b THEN a ELSE b

\* all_urls[start_idx:end_idx] with an end index one too small
batch_urls_short(b) ==
    LET start_idx == b * batch_size
        end_idx   == Min(start_idx + batch_size - 1, Len(all_urls))
    IN  SubSeq(all_urls, start_idx + 1, end_idx)

\* all_urls[start_idx:end_idx] of batch b
batch_urls(b) ==
    LET start_idx == b * batch_size
        end_idx   == Min(start_idx + batch_size, Len(all_urls))
    IN  SubSeq(all_urls, start_idx + 1, end_idx)

\* loop body that does not count a host rejected by the first TLD check
process_url_first_gate_uncounted(task, url_tuple, pats) ==
    LET parsed == url_netloc(url_tuple[1]) IN
    IF parsed.raised THEN task
    ELSE LET domain == parsed.netloc IN
         IF IsFalsy(domain) THEN task
         ELSE IF ~has_valid_tld(domain) THEN task
         ELSE LET normalized_domain == normalize_domain(domain, pats) IN
              IF ~has_valid_tld(normalized_domain)
              THEN [task EXCEPT !.batch_removed = @ + 1]
              ELSE [task EXCEPT
                       !.batch_domains = @ \cup {normalized_domain},
                       !.batch_counts = @ (+) SetToBag({normalized_domain})]

\* loop body that counts a URL without host as rejected
process_url_skip_counted(task, url_tuple, pats) ==
    LET parsed == url_netloc(url_tuple[1]) IN
    IF parsed.raised THEN [task EXCEPT !.batch_removed = @ + 1]
    ELSE LET domain == parsed.netloc IN
         IF IsFalsy(domain) THEN [task EXCEPT !.batch_removed = @ + 1]
         ELSE IF ~has_valid_tld(domain)
         THEN [task EXCEPT !.batch_removed = @ + 1]
         ELSE LET normalized_domain == normalize_domain(domain, pats) IN
              IF ~has_valid_tld(normalized_domain)
              THEN [task EXCEPT !.batch_removed = @ + 1]
              ELSE [task EXCEPT
                       !.batch_domains = @ \cup {normalized_domain},
                       !.batch_counts = @ (+) SetToBag({normalized_domain})]

\* loop body without the final TLD check
process_url_no_final_check(task, url_tuple, pats) ==
    LET parsed == url_netloc(url_tuple[1]) IN
    IF parsed.raised THEN task
    ELSE LET domain == parsed.netloc IN
         IF IsFalsy(domain) THEN task
         ELSE IF ~has_valid_tld(domain)
         THEN [task EXCEPT !.batch_removed = @ + 1]
         ELSE LET normalized_domain == normalize_domain(domain, pats) IN
              [task EXCEPT
                  !.batch_domains = @ \cup {normalized_domain},
                  !.batch_counts = @ (+) SetToBag({normalized_domain})]

\* one iteration of the loop of process_url_batch (lines 276-301)
process_url(task, url_tuple, pats) ==
    LET parsed == url_netloc(url_tuple[1]) IN
    IF parsed.raised THEN task
    ELSE LET domain == parsed.netloc IN
         IF IsFalsy(domain) THEN task
         ELSE IF ~has_valid_tld(domain)
         THEN [task EXCEPT !.batch_removed = @ + 1]
         ELSE LET normalized_domain == normalize_domain(domain, pats) IN
              IF ~has_valid_tld(normalized_domain)
              THEN [task EXCEPT !.batch_removed = @ + 1]
              ELSE [task EXCEPT
                       !.batch_domains = @ \cup {normalized_domain},
                       !.batch_counts = @ (+) SetToBag({normalized_domain})]

Batches == 0..(total_batches - 1)

Failed == {b \in Batches : tasks[b].state \in {"raised", "logged"}}

Running == {b \in Batches : tasks[b].state = "running"}

InitPipe ==
    /\ \E urls \in StrsUpTo({<<u>> : u \in PipeUrls}, MaxUrls),
          rs \in PipeRuleLists,
          bs \in 1..MaxBatchSize,
          mw \in 1..MaxWorkers :
           /\ all_urls = urls
           /\ patterns = rs
           /\ batch_size = bs
           /\ max_workers = mw
           /\ tasks = [b \in 0..(((Len(urls) + bs - 1) \div bs) - 1) |-> NewTask]
    /\ pc = "start"
    /\ batch_num = 0
    /\ unique_domains = {}
    /\ domain_counts = EmptyBag
    /\ domains_removed = 0
    /\ tld_call = TldIdle
    /\ norm_call = NormIdle
    /\ load = LoadIdle
    /\ args = ArgsIdle
    /\ finished_futures = <<>>
    /\ as_completed = NotStarted

inputVars == <<all_urls, patterns, batch_size, max_workers>>
accVars == <<unique_domains, domain_counts, domains_removed>>
otherVars == <<tld_call, norm_call, load, args>>

\* line 336: choose the execution mode
ChooseMode ==
    /\ pc = "start"
    /\ pc' = IF max_workers = 1 \/ total_batches <= SeqBatchThreshold
             THEN "sequential" ELSE "submit"
    /\ UNCHANGED <<inputVars, batch_num, tasks, accVars, otherVars>>

\* lines 338-344: the sequential loop calls process_url_batch
SeqBeginBatch ==
    /\ pc = "sequential"
    /\ batch_num < total_batches
    /\ tasks[batch_num].state = "unsubmitted"
    /\ tasks' = [tasks EXCEPT ![batch_num].state = "running"]
    /\ UNCHANGED <<inputVars, pc, batch_num, accVars, otherVars>>

\* lines 276-303: one URL of batch b; after the last URL the call returns
\* its locals (in a worker: the future of batch b holds the partial result)
ProcessUrl(b) ==
    /\ tasks[b].state = "running"
    /\ tasks[b].pos < Len(batch_urls(b))
    /\ tasks' = [tasks EXCEPT ![b] =
           [process_url(tasks[b], batch_urls(b)[tasks[b].pos + 1], patterns)
               EXCEPT !.pos = @ + 1,
                      !.state = IF tasks[b].pos + 1 = Len(batch_urls(b))
                                THEN "returned" ELSE "running"]]
    /\ UNCHANGED <<inputVars, pc, batch_num, accVars, otherVars>>

\* lines 344-355: the result of process_url_batch is merged
SeqMergeBatch ==
    /\ pc = "sequential"
    /\ batch_num < total_batches
    /\ tasks[batch_num].state = "returned"
    /\ unique_domains' = unique_domains \cup tasks[batch_num].batch_domains
    /\ domain_counts' = domain_counts (+) tasks[batch_num].batch_counts
    /\ domains_removed' = domains_removed + tasks[batch_num].batch_removed
    /\ tasks' = [tasks EXCEPT ![batch_num].state = "merged"]
    /\ batch_num' = batch_num + 1
    /\ UNCHANGED <<inputVars, pc, otherVars>>

\* line 344: process_url_batch raises an unexpected error; nothing in the
\* sequential loop catches it and it leaves extract_domains_from_urls
SeqBatchRaises ==
    /\ pc = "sequential"
    /\ batch_num < total_batches
    /\ tasks[batch_num].state = "running"
    /\ Cardinality(Failed) < MaxFailures
    /\ tasks' = [tasks EXCEPT ![batch_num] = [NewTask EXCEPT !.state = "raised"]]
    /\ pc' = "aborted"
    /\ UNCHANGED <<inputVars, batch_num, accVars, otherVars>>

\* lines 393-397: after the sequential loop
SeqReturn ==
    /\ pc = "sequential"
    /\ batch_num = total_batches
    /\ pc' = "done"
    /\ UNCHANGED <<inputVars, batch_num, tasks, accVars, otherVars>>

\* lines 363-369: executor.submit of the next batch
Submit ==
    /\ pc = "submit"
    /\ batch_num < total_batches
    /\ tasks' = [tasks EXCEPT ![batch_num].state = "queued"]
    /\ batch_num' = batch_num + 1
    /\ pc' = IF batch_num + 1 = total_batches THEN "collect" ELSE "submit"
    /\ UNCHANGED <<inputVars, accVars, otherVars>>

\* an idle worker thread of the pool takes the oldest queued batch
WorkerStart(b) ==
    /\ pc \in {"submit", "collect"}
    /\ tasks[b].state = "queued"
    /\ \A c \in Batches : tasks[c].state = "queued" => b <= c
    /\ Cardinality(Running) < max_workers
    /\ tasks' = [tasks EXCEPT ![b].state = "running"]
    /\ UNCHANGED <<inputVars, pc, batch_num, accVars, otherVars>>

\* process_url_batch raises an unexpected error in a worker: the future of
\* batch b holds the exception
WorkerRaises(b) ==
    /\ pc \in {"submit", "collect"}
    /\ tasks[b].state = "running"
    /\ Cardinality(Failed) < MaxFailures
    /\ tasks' = [tasks EXCEPT ![b] = [NewTask EXCEPT !.state = "raised"]]
    /\ UNCHANGED <<inputVars, pc, batch_num, accVars, otherVars>>

\* lines 373-388: as_completed yields the future of batch b, with a result
CollectMerge(b) ==
    /\ pc = "collect"
    /\ tasks[b].state = "returned"
    /\ unique_domains' = unique_domains \cup tasks[b].batch_domains
    /\ domain_counts' = domain_counts (+) tasks[b].batch_counts
    /\ domains_removed' = domains_removed + tasks[b].batch_removed
    /\ tasks' = [tasks EXCEPT ![b].state = "merged"]
    /\ UNCHANGED <<inputVars, pc, batch_num, otherVars>>

\* lines 373-391: as_completed yields the future of batch b, future.result()
\* raises and the error is logged
CollectFailure(b) ==
    /\ pc = "collect"
    /\ tasks[b].state = "raised"
    /\ tasks' = [tasks EXCEPT ![b].state = "logged"]
    /\ UNCHANGED <<inputVars, pc, batch_num, accVars, otherVars>>

\* ParReturn that leaves the collecting loop after the first report
ParReturn_first_report ==
    /\ pc = "collect"
    /\ \E b \in Batches : tasks[b].state \in {"merged", "logged"}
    /\ pc' = "done"
    /\ UNCHANGED <<inputVars, batch_num, tasks, accVars, otherVars>>

\* lines 393-397: every future was yielded, the executor is shut down
ParReturn ==
    /\ pc = "collect"
    /\ \A b \in Batches : tasks[b].state \in {"merged", "logged"}
    /\ pc' = "done"
    /\ UNCHANGED <<inputVars, batch_num, tasks, accVars, otherVars>>

\* the pipeline without the bookkeeping of as_completed: a future that is
\* done may be yielded at once, in any order
Next ==
    \/ ChooseMode /\ UNCHANGED futVars
    \/ SeqBeginBatch /\ UNCHANGED futVars
    \/ \E b \in Batches : ProcessUrl(b) /\ UNCHANGED futVars
    \/ SeqMergeBatch /\ UNCHANGED futVars
    \/ SeqBatchRaises /\ UNCHANGED futVars
    \/ SeqReturn /\ UNCHANGED futVars
    \/ Submit /\ UNCHANGED futVars
    \/ \E b \in Batches : WorkerStart(b) /\ UNCHANGED futVars
    \/ \E b \in Batches : WorkerRaises(b) /\ UNCHANGED futVars
    \/ \E b \in Batches : CollectMerge(b) /\ UNCHANGED futVars
    \/ \E b \in Batches : CollectFailure(b) /\ UNCHANGED futVars
    \/ ParReturn /\ UNCHANGED futVars

Init == InitPipe

Spec == Init /\ [][Next]_vars

-----------------------------------------------------------------------------
(* Properties of the pipeline *)

\* the URL of a row has a non-empty extracted host
HasHost(url_tuple) ==
    /\ ~url_netloc(url_tuple[1]).raised
    /\ url_netloc(url_tuple[1]).netloc # <<>>

\* the batch that holds the i-th row (i counted from 1)
BatchOf(i) == (i - 1) \div batch_size

\* the batches whose failure was logged
ErrorBatches == {b \in Batches : tasks[b].state = "logged"}

\* the run is in parallel mode
ParallelMode == max_workers # 1 /\ total_batches > SeqBatchThreshold

\* the whole loop of process_url_batch over the rows urls
RECURSIVE ProcessAll(_, _, _)
ProcessAll(task, urls, pats) ==
    IF urls = <<>> THEN task
    ELSE ProcessAll(process_url(task, Head(urls), pats), Tail(urls), pats)

Triple(task) == <<task.batch_domains, task.batch_counts, task.batch_removed>>

Returned == <<unique_domains, domain_counts, domains_removed>>

\* the rows of the batches outside the set F, in input order
RowsOutside(F) ==
    LET keep == {i \in 1..Len(all_urls) : BatchOf(i) \notin F}
    IN  [k \in 1..Cardinality(keep) |->
            all_urls[CHOOSE i \in keep : Cardinality({j \in keep : j < i}) = k - 1]]

\* C1 as stated: when extract_domains_from_urls returns, the sum of all
\* counts plus domains_removed equals the number of input URLs whose
\* extracted host is non-empty.
C1_AsStated ==
    pc = "done" =>
        BagCardinality(domain_counts) + domains_removed
            = Cardinality({i \in 1..Len(all_urls) : HasHost(all_urls[i])})

\* C1 amended: when extract_domains_from_urls returns, the sum of all
\* counts plus domains_removed equals the number of input URLs with a
\* non-empty extracted host that lie in batches whose processing did not
\* raise (the URLs of a batch that raised in parallel mode are dropped).
C1_ConservationOverSurvivingBatches ==
    pc = "done" =>
        BagCardinality(domain_counts) + domains_removed
            = Cardinality({i \in 1..Len(all_urls) :
                              HasHost(all_urls[i]) /\ BatchOf(i) \notin ErrorBatches})

\* a parallel run returned after one batch raised, with one URL counted and
\* one rejected in the other batches
C1_Witness ==
    /\ pc = "done"
    /\ ParallelMode
    /\ ErrorBatches # {}
    /\ domains_removed = 1
    /\ BagCardinality(domain_counts) = 1
    /\ \A i \in 1..Len(all_urls) : HasHost(all_urls[i])

C3_AsStated ==
    /\ pc # "aborted"
    /\ pc = "done" =>
           Returned = Triple(ProcessAll(NewTask, RowsOutside(ErrorBatches), patterns))

\* a step of process_url_batch on the next URL of batch b
UrlStep(b) ==
    /\ tasks[b].state = "running"
    /\ tasks'[b].pos = tasks[b].pos + 1

NextUrl(b) == batch_urls(b)[tasks[b].pos + 1]

\* the loop goes on to the next URL, or the call returns after the last one
AfterUrl(b) ==
    IF tasks[b].pos + 1 < Len(batch_urls(b)) THEN "running" ELSE "returned"

\* C4: a URL whose host extraction fails or yields an empty host is
\* skipped: the step changes neither the rejected count nor the unique set
\* nor any count, the loop goes on to the next URL of the batch, and a batch
\* returns only after every one of its URLs was processed.
C4_PerEntryRecovery ==
    /\ [][\A b \in Batches :
              (UrlStep(b) /\ ~HasHost(NextUrl(b))) =>
                  /\ tasks'[b] = [tasks[b] EXCEPT !.pos = @ + 1,
                                                  !.state = AfterUrl(b)]
                  /\ UNCHANGED accVars]_vars
    /\ [](\A b \in Batches :
              tasks[b].state \in {"returned", "merged"} =>
                  tasks[b].pos = Len(batch_urls(b)))

\* in one batch a URL without host and a URL whose parse raised were passed
\* and the URL after them was counted
C4_Witness ==
    \E b \in Batches :
        /\ tasks[b].state = "merged"
        /\ Len(batch_urls(b)) = 3
        /\ batch_urls(b)[1][1].kind = "opaque"
        /\ batch_urls(b)[2][1].kind = "badipv6"
        /\ HasHost(batch_urls(b)[3])
        /\ tasks[b].batch_removed = 0
        /\ BagCardinality(tasks[b].batch_counts) = 1

\* C5: for a URL with a non-empty host, if the raw host or the normalized
\* host fails has_valid_tld the rejected count grows by exactly 1 and no
\* domain is added or counted; otherwise the normalized domain is added to
\* the unique set and its count grows by exactly 1.  Every domain of the
\* unique set and of the count mapping passes has_valid_tld.
C5_DoubleTldGate ==
    /\ [][\A b \in Batches :
              (UrlStep(b) /\ HasHost(NextUrl(b))) =>
                  LET host == url_netloc(NextUrl(b)[1]).netloc
                      norm == normalize_domain(host, patterns)
                  IN  IF ~has_valid_tld(host) \/ ~has_valid_tld(norm)
                      THEN tasks'[b] = [tasks[b] EXCEPT !.pos = @ + 1,
                                                        !.state = AfterUrl(b),
                                                        !.batch_removed = @ + 1]
                      ELSE tasks'[b] = [tasks[b] EXCEPT
                               !.pos = @ + 1,
                               !.state = AfterUrl(b),
                               !.batch_domains = @ \cup {norm},
                               !.batch_counts = @ (+) SetToBag({norm})]]_vars
    /\ [](\A d \in unique_domains \cup BagToSet(domain_counts) :
              has_valid_tld(d))

\* a run rejected one URL at the first check and one after normalization,
\* and counted a third
C5_Witness ==
    /\ pc = "done"
    /\ patterns # <<>>
    /\ Len(all_urls) = 3
    /\ ~has_valid_tld(all_urls[2][1].netloc)
    /\ has_valid_tld(all_urls[3][1].netloc)
    /\ ~has_valid_tld(normalize_domain(all_urls[3][1].netloc, patterns))
    /\ domains_removed = 2
    /\ unique_domains = {<<"a", ".", "b", "c">>}

-----------------------------------------------------------------------------
(* The completion barrier of the parallel branch *)

\* the partial results of the batches b.. that were merged, put together
RECURSIVE SumMerged(_)
SumMerged(b) ==
    IF b >= total_batches THEN <<{}, EmptyBag, 0>>
    ELSE LET rest == SumMerged(b + 1) IN
         IF tasks[b].state = "merged"
         THEN <<rest[1] \cup tasks[b].batch_domains,
                rest[2] (+) tasks[b].batch_counts,
                rest[3] + tasks[b].batch_removed>>
         ELSE rest

\* C14: in parallel mode extract_domains_from_urls returns only after every
\* submitted batch has reported, its partial result merged or its failure
\* logged; the accumulators hold the partial result of every merged batch
\* exactly once; a partial result is merged by a step of the orchestrating
\* thread that takes the result of a batch that returned, a merged batch is
\* never taken again, and only a batch that raised is logged and dropped.
C14_CompletionBarrier ==
    /\ []((ParallelMode /\ pc = "done") =>
              \A b \in Batches : tasks[b].state \in {"merged", "logged"})
    /\ [](ParallelMode => Returned = SumMerged(0))
    /\ [][ParallelMode =>
              /\ accVars' # accVars =>
                     /\ pc = "collect" /\ pc' = "collect"
                     /\ \E b \in Batches :
                            /\ tasks[b].state = "returned"
                            /\ tasks' = [tasks EXCEPT ![b].state = "merged"]
              /\ \A b \in Batches :
                     /\ tasks[b].state \in {"merged", "logged"} =>
                            tasks'[b] = tasks[b]
                     /\ (tasks[b].state # "merged" /\ tasks'[b].state = "merged")
                            => tasks[b].state = "returned"
                     /\ (tasks[b].state # "logged" /\ tasks'[b].state = "logged")
                            => tasks[b].state = "raised"]_vars

\* a parallel run returned after two batches were merged and the failure of
\* the third was logged
C14_Witness ==
    /\ pc = "done"
    /\ ParallelMode
    /\ Cardinality({b \in Batches : tasks[b].state = "merged"}) = 2
    /\ Cardinality({b \in Batches : tasks[b].state = "logged"}) = 1
    /\ Returned = SumMerged(0)
    /\ unique_domains # {}

-----------------------------------------------------------------------------
(* main_cli and analyze_browser_history: from the parsed command line to   *)
(* the call of extract_domains_from_urls.  The options --top, --bottom and *)
(* --workers hold valid values; the file state of load is that of the file *)
(* load_domain_patterns consults.                                          *)

\* hosts of the history rows of a command line run
CliUrls ==
    { Url("hier", <<"d", ".", "c", "l", "o", "u", "d", "f", "r", "o", "n",
                    "t", ".", "n", "e", "t">>),
      Url("hier", <<"b", ".", "c", ".", "a", ".", "b", "c">>) }

InitCli ==
    /\ \E np \in BOOLEAN, path \in {None, CustomPath},
          ex \in BOOLEAN, rd \in BOOLEAN,
          ls \in StrsUpTo(StrsUpTo(LineChars, MaxLineLen), MaxLines) :
           /\ (~ex => (~rd /\ ls = <<>>))
           /\ args = [ArgsIdle EXCEPT !.no_patterns = np,
                                      !.pattern_file_path = path,
                                      !.pc = "parsed"]
           /\ load = [LoadIdle EXCEPT !.exists = ex, !.readable = rd,
                                      !.lines = ls]
    /\ tld_call = TldIdle
    /\ norm_call = NormIdle
    /\ PipeIdle

\* lines 524-531, 558-565, 405-407: resolve the pattern file path and call
\* load_domain_patterns with it
CliLoadPatterns ==
    /\ args.pc = "parsed"
    /\ LET pattern_file_path ==
               IF args.no_patterns THEN None
               ELSE IF args.pattern_file_path # None
               THEN args.pattern_file_path
               ELSE None
       IN  load' = [load EXCEPT !.pattern_file_path = pattern_file_path,
                                !.pc = "check_exists"]
    /\ args' = [args EXCEPT !.pc = "analyze"]
    /\ UNCHANGED <<tld_call, norm_call, pipeVars, futVars>>

\* lines 407-413, 305-334: the rule list returned by load_domain_patterns is
\* the one given to extract_domains_from_urls
AnalyzeExtract ==
    /\ args.pc = "analyze"
    /\ load.pc = "returned"
    /\ \E urls \in StrsUpTo({<<u>> : u \in CliUrls}, 1) :
           /\ all_urls' = urls
           /\ tasks' = [b \in 0..(Len(urls) - 1) |-> NewTask]
    /\ patterns' = load.returned
    /\ pc' = "start"
    /\ args' = [args EXCEPT !.pc = "extract"]
    /\ UNCHANGED <<batch_size, max_workers, batch_num, accVars, futVars,
                   tld_call, norm_call, load>>

\* lines 570-572: an exception of the analysis ends the run with status 1
CliError ==
    /\ args.pc = "analyze"
    /\ load.pc = "raised"
    /\ args' = [args EXCEPT !.pc = "exit", !.exit_code = 1]
    /\ UNCHANGED <<tld_call, norm_call, load, pipeVars, futVars>>

NextCli ==
    \/ CliLoadPatterns
    \/ NextLoad
    \/ NextLoadDefault
    \/ AnalyzeExtract
    \/ CliError

SpecCli == InitCli /\ [][NextCli]_vars

\* C12: in a run with --no-patterns the rule list given to the pipeline is
\* empty, so every host is normalized by structural truncation only.
C12_AsStated ==
    (args.no_patterns /\ args.pc = "extract") =>
        /\ patterns = <<>>
        /\ \A i \in 1..Len(all_urls) :
               LET host == url_netloc(all_urls[i][1]).netloc IN
               normalize_domain(host, patterns) = normalize_domain(host, <<>>)

-----------------------------------------------------------------------------
(* The pipeline with the bookkeeping of the futures: submit, the worker    *)
(* threads and as_completed of concurrent.futures.  as_completed first     *)
(* yields the futures it finds done when it starts, in the order of a set, *)
(* then the others as they finish.                                         *)

\* hosts of the rows of a run that follows the futures
OrderUrls ==
    { Url("hier", <<"b", ".", "c", ".", "a", ".", "b", "c">>),
      Url("hier", <<"b", "c", ".", "a", "b">>) }

InitOrdered ==
    /\ \E urls \in StrsUpTo({<<u>> : u \in OrderUrls}, MaxUrls),
          bs \in 1..MaxBatchSize,
          mw \in 1..MaxWorkers :
           /\ all_urls = urls
           /\ batch_size = bs
           /\ max_workers = mw
           /\ tasks = [b \in 0..(((Len(urls) + bs - 1) \div bs) - 1) |-> NewTask]
    /\ patterns = <<>>
    /\ pc = "start"
    /\ batch_num = 0
    /\ unique_domains = {}
    /\ domain_counts = EmptyBag
    /\ domains_removed = 0
    /\ finished_futures = <<>>
    /\ as_completed = NotStarted
    /\ tld_call = TldIdle
    /\ norm_call = NormIdle
    /\ load = LoadIdle
    /\ args = ArgsIdle

\* the future of batch b becomes done in this step of a worker thread
FutureDone(b) ==
    /\ finished_futures' =
           IF pc # "sequential" /\ tasks'[b].state \in {"returned", "raised"}
           THEN Append(finished_futures, b) ELSE finished_futures
    /\ as_completed' = as_completed

\* line 373: as_completed starts: the futures that are done by now are
\* collected in a set
AsCompletedBegin ==
    /\ pc = "collect"
    /\ ~as_completed.started
    /\ as_completed' =
           [started |-> TRUE,
            finished |-> {finished_futures[k] : k \in 1..Len(finished_futures)}]
    /\ UNCHANGED <<pipeVars, finished_futures, otherVars>>

\* as_completed yields any future that is done
Yields_any_done(b) ==
    /\ as_completed.started
    /\ \E k \in 1..Len(finished_futures) : finished_futures[k] = b

\* the future as_completed yields next is b: any member of its set of
\* futures found done at the start, then the oldest of the later ones
Yields(b) ==
    /\ as_completed.started
    /\ IF as_completed.finished # {} THEN b \in as_completed.finished
       ELSE finished_futures # <<>> /\ b = Head(finished_futures)

\* the sequence s without the element b
Without(s, b) == SelectSeq(s, LAMBDA x : x # b)

\* line 373: as_completed yields the future of batch b
Yield(b) ==
    /\ Yields(b)
    /\ finished_futures' = Without(finished_futures, b)
    /\ as_completed' = [as_completed EXCEPT !.finished = @ \ {b}]

NextOrdered ==
    \/ ChooseMode /\ UNCHANGED futVars
    \/ SeqBeginBatch /\ UNCHANGED futVars
    \/ \E b \in Batches : ProcessUrl(b) /\ FutureDone(b)
    \/ SeqMergeBatch /\ UNCHANGED futVars
    \/ SeqBatchRaises /\ UNCHANGED futVars
    \/ SeqReturn /\ UNCHANGED futVars
    \/ Submit /\ UNCHANGED futVars
    \/ \E b \in Batches : WorkerStart(b) /\ UNCHANGED futVars
    \/ \E b \in Batches : WorkerRaises(b) /\ FutureDone(b)
    \/ AsCompletedBegin
    \/ \E b \in Batches : CollectMerge(b) /\ Yield(b)
    \/ \E b \in Batches : CollectFailure(b) /\ Yield(b)
    \/ ParReturn /\ UNCHANGED futVars

SpecOrdered == InitOrdered /\ [][NextOrdered]_vars

\* the batches, one after the other
RECURSIVE ConcatBatches(_)
ConcatBatches(b) ==
    IF b >= total_batches THEN <<>>
    ELSE batch_urls(b) \o ConcatBatches(b + 1)

\* contiguous batches of batch_size, only the last may be shorter, every URL
\* is in exactly one batch
ContiguousBatches ==
    /\ ConcatBatches(0) = all_urls
    /\ \A b \in Batches :
           /\ Len(batch_urls(b)) \in 1..batch_size
           /\ b < total_batches - 1 => Len(batch_urls(b)) = batch_size

\* batch b was given to process_url_batch and its result is not merged yet
InProgress(b) == tasks[b].state \in {"running", "returned"}

\* with one worker or at most two batches: ascending batch index order, no
\* two batches in progress at once, no worker pool
SequentialInOrder ==
    ~ParallelMode =>
        /\ \A b \in Batches :
               /\ tasks[b].state \notin {"queued", "logged"}
               /\ tasks[b].state # "unsubmitted" =>
                      \A c \in Batches : c < b => tasks[c].state = "merged"
        /\ Cardinality({b \in Batches : InProgress(b)}) <= 1
        /\ finished_futures = <<>>

\* otherwise: every batch is submitted before any partial result is merged
SubmittedBeforeMerge ==
    ParallelMode =>
        ((\/ \E b \in Batches : tasks[b].state \in {"merged", "logged"}
          \/ Returned # <<{}, EmptyBag, 0>>) =>
             \A c \in Batches : tasks[c].state # "unsubmitted")

\* the collecting loop takes the future of batch b in this step
YieldStep(b) ==
    /\ tasks[b].state \in {"returned", "raised"}
    /\ tasks'[b].state \in {"merged", "logged"}

\* the futures that finished before the future of b and were not yielded
DoneBefore(b) ==
    {finished_futures[k] : k \in {j \in 1..Len(finished_futures) :
        \A i \in 1..j : finished_futures[i] # b}}

\* C13 as stated: contiguous batches; sequential mode in ascending order,
\* one batch at a time; in parallel mode every batch is submitted before any
\* merge and the partial results are merged in completion order.
C13_AsStated ==
    /\ [](ContiguousBatches /\ SequentialInOrder /\ SubmittedBeforeMerge)
    /\ [][\A b \in Batches :
              (ParallelMode /\ YieldStep(b)) => DoneBefore(b) = {}]_vars

\* C13, amended: contiguous batches; sequential mode in ascending order, one
\* batch at a time; in parallel mode every batch is submitted before any
\* merge, a partial result is merged only after its batch finished, and it
\* is merged before one that finished earlier only when both had finished
\* before as_completed started.
C13_ModesAndMergeOrder ==
    /\ [](ContiguousBatches /\ SequentialInOrder /\ SubmittedBeforeMerge)
    /\ [][\A b \in Batches :
              (ParallelMode /\ YieldStep(b)) =>
                  /\ \E k \in 1..Len(finished_futures) : finished_futures[k] = b
                  /\ pc = "collect"
                  /\ DoneBefore(b) # {} =>
                         (DoneBefore(b) \cup {b}) \subseteq
                             as_completed.finished]_vars

\* a parallel run: as_completed found two futures done and one of them was
\* merged; a third future finished later and waits for the one that is left
C13_Witness ==
    /\ ParallelMode
    /\ pc = "collect"
    /\ Len(finished_futures) = 2
    /\ as_completed.finished = {finished_futures[1]}
    /\ Cardinality({b \in Batches : tasks[b].state = "merged"}) = 1

=============================================================================
